---- MODULE Spec2Model ----
(***************************************************************************)
(* chatlyze: the per-chat session state machine of the Telegram bot        *)
(* (src/src/telegram_bot.rs) and the requests it builds for the text       *)
(* backend (src/src/openai_client.rs).                                     *)
(*                                                                         *)
(* Every handler is split at its .await points: one action per segment.    *)
(* A transport send, a storage update and a backend call each have their   *)
(* outcome drawn nondeterministically (Result::Ok / Result::Err).          *)
(***************************************************************************)
EXTENDS Naturals, Sequences, FiniteSets, TLC

VARIABLES
    storage,    \* InMemStorage<State>: chat id -> Option<State>
    hnd,        \* per place: the handler invocation in flight (or the last one)
    out,        \* per place: what the invocation handed to the transport, in order
    calls,      \* per place: the backend calls the invocation made, in order
    log,        \* per place: the error!(error_id, cause) records of the invocation
    ret,        \* per place: the HandlerResult of the invocation
    nUpdates,   \* updates received so far (also the clock of Message.date)
    storeFails  \* whether the Storage behind the dialogue can answer Err

vars == <<storage, hnd, out, calls, log, ret, nUpdates, storeFails>>

----------------------------------------------------------------------------
(* Bounds *)

MaxUpdates == 3

Chats == {"c1"}

\* The places for handler invocations that run at the same time
Invocations == {1, 2}

----------------------------------------------------------------------------
(* Option<T> *)

None == <<>>

Some(x) == <<x>>

IsSome(o) == o /= <<>>

Unwrap(o) == o[1]

----------------------------------------------------------------------------
(* Data model: telegram_bot.rs *)

\* enum Command, as BotCommands::parse yields it
CommandNames == {"chat", "image", "group", "reset"}

\* struct BotMessage
BotMessage(role, content, name) ==
    [role |-> role, content |-> content, name |-> name]

\* impl Default for History (derived): both logs empty
HistoryDefault == [group_history |-> <<>>, bot_history |-> <<>>]

\* enum State
Offline == [tag |-> "Offline"]

Online(history) == [tag |-> "Online", history |-> history]

StateDefaultOffline == Offline

\* impl Default for State
StateDefault == Online(HistoryDefault)

----------------------------------------------------------------------------
(* Inputs *)

Usernames == {"alice"}

\* The text of a message, as the command parser sees it: the command word
\* (empty for a message that is no command) and the rest of the line.
PlainBodies == {[cmd |-> "", arg |-> "left at 5"]}

CommandBodies ==
    {[cmd |-> c, arg |-> "hello"] : c \in {"chat", "image", "group"}}
        \cup {[cmd |-> "reset", arg |-> ""]}

\* A text that starts like a command and that Command::parse rejects
UnknownBodies == {[cmd |-> "start", arg |-> "hello"]}

\* teloxide Message: sender username, text, date
Messages(date) ==
    [from : {None} \cup {Some(u) : u \in Usernames},
     text : {None} \cup
            {Some(b) : b \in PlainBodies \cup CommandBodies \cup UnknownBodies},
     date : {date}]

NoMessage == [from |-> None, text |-> None, date |-> 0]

\* filter_command::<Command, _>(): Command::parse of the message text
ParseCommand(message) ==
    IF IsSome(message.text) /\ Unwrap(message.text).cmd \in CommandNames
    THEN Some([name |-> Unwrap(message.text).cmd,
               text |-> Unwrap(message.text).arg])
    ELSE None

----------------------------------------------------------------------------
(* Routing *)

SchemaDropOffline(state, message) ==
    IF IsSome(ParseCommand(message)) /\ state.tag = "Online"
    THEN Unwrap(ParseCommand(message)).name
    ELSE "record"

SchemaDropsUnparsed(state, message) ==
    IF state.tag = "Offline" THEN "do_nothing"
    ELSE IF IsSome(ParseCommand(message)) /\ state.tag = "Online"
         THEN Unwrap(ParseCommand(message)).name
    ELSE IF IsSome(message.text) /\ Unwrap(message.text).cmd /= ""
         THEN "do_nothing"
    ELSE IF state.tag = "Online" THEN "record"
    ELSE "do_nothing"

SchemaRecordsFirst(state, message) ==
    IF state.tag = "Offline" THEN "do_nothing"
    ELSE IF state.tag = "Online" THEN "record"
    ELSE IF IsSome(ParseCommand(message))
         THEN Unwrap(ParseCommand(message)).name
    ELSE "do_nothing"

\* schema(): the dptree of branches, first match wins
Schema(state, message) ==
    IF state.tag = "Offline" THEN "do_nothing"
    ELSE IF IsSome(ParseCommand(message)) /\ state.tag = "Online"
         THEN Unwrap(ParseCommand(message)).name
    ELSE IF state.tag = "Online" THEN "record"
    ELSE "do_nothing"

\* dialogue::enter: the stored state of the chat, or State::default()
GetOrDefault(stored) == IF IsSome(stored) THEN Unwrap(stored) ELSE StateDefault

\* The states the storage can hold for a chat before its first update: no
\* entry, or the muted state set by configuration.
StoredAtStart == {None, Some(Offline)}

----------------------------------------------------------------------------
(* Handler invocations *)

NoResp == [ok |-> FALSE, choices |-> <<>>, usage |-> None, error |-> ""]

Idle ==
    [chat |-> CHOOSE chat \in Chats : TRUE,
     endpoint |-> "none", pc |-> "idle", state |-> StateDefault,
     before |-> None, history |-> HistoryDefault, text |-> "",
     message |-> NoMessage, resp |-> NoResp, botname |-> None,
     updated |-> None]

Init ==
    /\ storage \in [Chats -> StoredAtStart]
    /\ hnd = [h \in Invocations |-> Idle]
    /\ out = [h \in Invocations |-> <<>>]
    /\ calls = [h \in Invocations |-> <<>>]
    /\ log = [h \in Invocations |-> <<>>]
    /\ ret = [h \in Invocations |-> "none"]
    /\ nUpdates = 0
    /\ storeFails = FALSE

\* The invocations of one chat that have not returned
InFlight(chat) ==
    {k \in Invocations : hnd[k].chat = chat /\ hnd[k].pc \notin {"idle", "done"}}

Unserialized(chat) == TRUE

\* At most one handler per chat at a time: the chat's next update waits
\* until the chat's previous handler has returned.
Serialized(chat) == InFlight(chat) = {}

Free(k) == hnd[k].pc \in {"idle", "done"}

\* An update enters schema(): dialogue::enter reads the chat's state and the
\* branches pick the endpoint, which is given the state's History by value.
\* The invocation takes the first free place.
Dispatch(h, chat, message) ==
    /\ nUpdates < MaxUpdates
    /\ Serialized(chat)
    /\ Free(h)
    /\ \A k \in Invocations : Free(k) => h <= k
    /\ LET state == GetOrDefault(storage[chat])
           cmd == ParseCommand(message)
       IN hnd' = [hnd EXCEPT ![h] =
                    [chat |-> chat,
                     endpoint |-> Schema(state, message),
                     pc |-> "start",
                     state |-> state,
                     before |-> storage[chat],
                     history |-> IF state.tag = "Online" THEN state.history
                                 ELSE HistoryDefault,
                     text |-> IF IsSome(cmd) THEN Unwrap(cmd).text ELSE "",
                     message |-> message,
                     resp |-> NoResp,
                     botname |-> None,
                     updated |-> None]]
    /\ out' = [out EXCEPT ![h] = <<>>]
    /\ calls' = [calls EXCEPT ![h] = <<>>]
    /\ log' = [log EXCEPT ![h] = <<>>]
    /\ ret' = [ret EXCEPT ![h] = "none"]
    /\ nUpdates' = nUpdates + 1
    /\ UNCHANGED <<storage, storeFails>>

\* The stored state of the chat the invocation serves
StorageOf(h) == storage[hnd[h].chat]

At(h, endpoint, pc) == hnd[h].endpoint = endpoint /\ hnd[h].pc = pc

\* Continue at the next segment of the handler.
Goto(h, pc) == [hnd[h] EXCEPT !.pc = pc]

\* The handler returns r.
Return(h, r) ==
    /\ hnd' = [hnd EXCEPT ![h].pc = "done"]
    /\ ret' = [ret EXCEPT ![h] = r]

\* Outbound transport requests
ChatAction(action) == [kind |-> "chat_action", payload |-> <<action>>]

TextMessage(text) == [kind |-> "message", payload |-> text]

MediaGroup(media) == [kind |-> "media_group", payload |-> media]

GetMe == [kind |-> "get_me", payload |-> <<>>]

\* bot.<request>.await: the request reaches the transport, which answers
\* Ok (ok) or Err
Send(h, request, ok) ==
    out' = [out EXCEPT ![h] =
              Append(@, [kind |-> request.kind, payload |-> request.payload,
                         ok |-> ok])]

\* dialogue.update(..).await: InMemStorage::update_dialogue always answers
\* Ok; a Storage that can fail answers either way.
UpdateOutcomes == IF storeFails THEN BOOLEAN ELSE {TRUE}

----------------------------------------------------------------------------
(* do_nothing *)

DoNothing(h) ==
    /\ At(h, "do_nothing", "start")
    /\ Return(h, "Ok")
    /\ UNCHANGED <<storage, out, calls, log, nUpdates, storeFails>>

----------------------------------------------------------------------------
(* record *)

RecordPushFront(history, new_message) ==
    [history EXCEPT !.group_history = <<new_message>> \o @]

\* history.group_history.push(new_message)
RecordPush(history, new_message) ==
    [history EXCEPT !.group_history = Append(@, new_message)]

Record(h) ==
    /\ At(h, "record", "start")
    /\ LET history == RecordPush(hnd[h].history, hnd[h].message)
       IN \E ok \in UpdateOutcomes :
            IF ok
            THEN /\ storage' = [storage EXCEPT ![hnd[h].chat] = Some(Online(history))]
                 /\ hnd' = [hnd EXCEPT ![h] =
                              [@ EXCEPT !.history = history,
                                        !.updated = Some(ok), !.pc = "done"]]
                 /\ ret' = [ret EXCEPT ![h] = "Ok"]
            ELSE /\ hnd' = [hnd EXCEPT ![h] =
                              [@ EXCEPT !.history = history,
                                        !.updated = Some(ok), !.pc = "done"]]
                 /\ ret' = [ret EXCEPT ![h] = "Err"]
                 /\ UNCHANGED storage
    /\ UNCHANGED <<out, calls, log, nUpdates, storeFails>>

----------------------------------------------------------------------------
(* reset *)

ResetBoth(history) == HistoryDefault

\* history.bot_history = BotHistory::default()
ResetHistory(history) == [history EXCEPT !.bot_history = <<>>]

ResetTyping(h) ==
    /\ At(h, "reset", "start")
    /\ \E ok \in BOOLEAN :
         /\ Send(h, ChatAction("Typing"), ok)
         /\ IF ok
            THEN hnd' = [hnd EXCEPT ![h] = Goto(h, "update")] /\ UNCHANGED ret
            ELSE Return(h, "Err")
    /\ UNCHANGED <<storage, calls, log, nUpdates, storeFails>>

ResetUpdateIgnores(h) ==
    /\ At(h, "reset", "update")
    /\ LET history == ResetHistory(hnd[h].history)
       IN \E ok \in UpdateOutcomes :
            /\ storage' = IF ok
                          THEN [storage EXCEPT ![hnd[h].chat] =
                                   Some(Online(history))]
                          ELSE storage
            /\ hnd' = [hnd EXCEPT ![h] =
                         [@ EXCEPT !.history = history,
                                   !.updated = Some(ok), !.pc = "confirm"]]
            /\ UNCHANGED ret
    /\ UNCHANGED <<out, calls, log, nUpdates, storeFails>>

ResetUpdate(h) ==
    /\ At(h, "reset", "update")
    /\ LET history == ResetHistory(hnd[h].history)
       IN \E ok \in UpdateOutcomes :
            IF ok
            THEN /\ storage' = [storage EXCEPT ![hnd[h].chat] = Some(Online(history))]
                 /\ hnd' = [hnd EXCEPT ![h] =
                              [@ EXCEPT !.history = history,
                                        !.updated = Some(ok), !.pc = "confirm"]]
                 /\ UNCHANGED ret
            ELSE /\ hnd' = [hnd EXCEPT ![h] =
                              [@ EXCEPT !.history = history,
                                        !.updated = Some(ok), !.pc = "done"]]
                 /\ ret' = [ret EXCEPT ![h] = "Err"]
                 /\ UNCHANGED storage
    /\ UNCHANGED <<out, calls, log, nUpdates, storeFails>>

\* The MarkdownV2 code quotes of the source's literals are written ' here.
ResetConfirmText == <<"'Bot chat history has been erased' OK">>

ResetConfirm(h) ==
    /\ At(h, "reset", "confirm")
    /\ \E ok \in BOOLEAN :
         /\ Send(h, TextMessage(ResetConfirmText), ok)
         /\ Return(h, IF ok THEN "Ok" ELSE "Err")
    /\ UNCHANGED <<storage, calls, log, nUpdates, storeFails>>

----------------------------------------------------------------------------
(* Requests to the text backend: openai_client.rs *)

MaxTokens == 512

\* impl From<telegram_bot::Role> for async_openai::types::Role
RoleInto(val) ==
    CASE val = "System" -> "system"
      [] val = "User" -> "user"
      [] val = "Assistant" -> "assistant"

\* impl From<telegram_bot::BotMessage> for ChatCompletionRequestMessage
MessageInto(value) ==
    [role |-> RoleInto(value.role), content |-> value.content,
     name |-> value.name]

IntoLastOnly(bot_history) ==
    <<MessageInto(bot_history[Len(bot_history)])>>

IntoAll(bot_history) ==
    [i \in 1..Len(bot_history) |-> MessageInto(bot_history[i])]

DefaultSystemPrompt == "You are GTP-4 a Telegram chat bot"

DefaultModel == "gpt-4"

\* reply(): the request handed to client.chat().create(). request_messages
\* is built and then left unused: the builder is given `messages`.
Reply(messages, system, model) ==
    LET system_msg ==
            [role |-> "system",
             content |-> IF IsSome(system) THEN Unwrap(system)
                         ELSE DefaultSystemPrompt,
             name |-> None]
        request_messages == <<system_msg>> \o messages
    IN [max_tokens |-> MaxTokens,
        model |-> IF IsSome(model) THEN Unwrap(model) ELSE DefaultModel,
        messages |-> messages]

\* Message::text(): the text of the message as sent
BodyText(body) ==
    IF body.cmd = "" THEN body.arg ELSE "/" \o body.cmd \o " " \o body.arg

\* message.date.naive_local(), as Display prints it
NaiveLocal(date) == "1970-01-01 00:00:0" \o ToString(date)

GroupLine(username, message_time, message_text) ==
    username \o " [" \o message_time \o "]: " \o message_text \o "\n"

GroupKeepsUnnamed(message) == IsSome(message.text)

\* if let (Some(username), Some(message_text)) = (username, message_text)
GroupKeeps(message) == IsSome(message.from) /\ IsSome(message.text)

\* for message in messages { ... chat_history.push_str(...) }
RECURSIVE GroupLoop(_, _, _)
GroupLoop(messages, i, chat_history) ==
    IF i > Len(messages) THEN chat_history
    ELSE LET message == messages[i]
             username == IF IsSome(message.from) THEN Unwrap(message.from)
                         ELSE "?"
         IN IF GroupKeeps(message)
            THEN GroupLoop(messages, i + 1,
                     chat_history \o GroupLine(username,
                                        NaiveLocal(message.date),
                                        BodyText(Unwrap(message.text))))
            ELSE GroupLoop(messages, i + 1, chat_history)

GroupSystemPrompt ==
    "You are a Telegram chat bot that helps humans to understand what is happening or has happened in group chats"

\* group_question(): the request handed to client.chat().create()
GroupQuestion(messages, question) ==
    LET system_message ==
            [role |-> "system", content |-> GroupSystemPrompt, name |-> None]
        chat_history == GroupLoop(messages, 1, "")
        task_message ==
            [role |-> "user",
             content |-> "Use the following conversation as context: \n\n ###"
                           \o chat_history \o "###  \n\n " \o question \o " ",
             name |-> None]
    IN [max_tokens |-> MaxTokens, model |-> "gpt-4",
        messages |-> <<system_message, task_message>>]

\* Result<CreateChatCompletionResponse, OpenAIError>, as the handlers read it
Usage(total) ==
    [total_tokens |-> total, prompt_tokens |-> total - 5,
     completion_tokens |-> 5]

TokenTotals == {15, 5999, 6000, 6001}

ChoiceLists == {<<>>, <<"hi!">>, <<"hi!", "yo">>}

TextErr(e) == [ok |-> FALSE, choices |-> <<>>, usage |-> None, error |-> e]

TextOk(choices, usage) ==
    [ok |-> TRUE, choices |-> choices, usage |-> usage, error |-> ""]

TextResults ==
    {TextErr("backend: connection reset")}
        \cup {TextOk(ch, None) : ch \in ChoiceLists}
        \cup {TextOk(<<"hi!">>, Some(Usage(t))) : t \in TokenTotals}

Call(fn, supplied, request) ==
    [fn |-> fn, supplied |-> supplied, request |-> request]

Invoke(h, call) == calls' = [calls EXCEPT ![h] = Append(@, call)]

----------------------------------------------------------------------------
(* The error branch of group, image and chat *)

\* Uuid::new_v4().simple().to_string(): a random identifier
ErrorIds == {"id1", "id2"}

\* format!("there was an error ... `{}`", error_id)
ErrorText(error_id) ==
    <<"there was an error processing your request, you can use this ID to track the issue '",
      error_id, "'">>

ErrorBranch(h, cause) ==
    \E error_id \in ErrorIds :
        /\ log' = [log EXCEPT ![h] =
                     Append(@, [error_id |-> error_id, cause |-> cause])]
        /\ \E ok \in BOOLEAN :
             /\ Send(h, TextMessage(ErrorText(error_id)), ok)
             /\ Return(h, IF ok THEN "Ok" ELSE "Err")

\* teloxide::utils::markdown::escape: a backslash before each reserved character
Escape(text) ==
    CASE text = "hi!" -> "hi\\!"
      [] text = "hi!yo" -> "hi\\!yo"
      [] OTHER -> text

\* .map(|choice| choice.message.content).collect::<String>()
RECURSIVE Collect(_)
Collect(choices) ==
    IF choices = <<>> THEN "" ELSE Head(choices) \o Collect(Tail(choices))

----------------------------------------------------------------------------
(* group *)

GroupTyping(h) ==
    /\ At(h, "group", "start")
    /\ \E ok \in BOOLEAN :
         /\ Send(h, ChatAction("Typing"), ok)
         /\ IF ok
            THEN hnd' = [hnd EXCEPT ![h] = Goto(h, "ask")] /\ UNCHANGED ret
            ELSE Return(h, "Err")
    /\ UNCHANGED <<storage, calls, log, nUpdates, storeFails>>

GroupAsk(h) ==
    /\ At(h, "group", "ask")
    /\ Invoke(h, Call("group_question", <<>>,
                      GroupQuestion(hnd[h].history.group_history, hnd[h].text)))
    /\ \E r \in TextResults :
         hnd' = [hnd EXCEPT ![h] =
                   [@ EXCEPT !.resp = r,
                             !.pc = IF r.ok THEN "answer" ELSE "error"]]
    /\ UNCHANGED <<storage, out, log, ret, nUpdates, storeFails>>

GroupError(h) ==
    /\ At(h, "group", "error")
    /\ ErrorBranch(h, hnd[h].resp.error)
    /\ UNCHANGED <<storage, calls, nUpdates, storeFails>>

GroupAnswerCommits(h) ==
    /\ At(h, "group", "answer")
    /\ storage' = [storage EXCEPT ![hnd[h].chat] =
                     Some(Online([hnd[h].history EXCEPT !.bot_history =
                        Append(@, BotMessage("User", hnd[h].text,
                                             hnd[h].message.from))]))]
    /\ \E ok \in BOOLEAN :
         /\ Send(h, TextMessage(<<Escape(Collect(hnd[h].resp.choices))>>), ok)
         /\ Return(h, IF ok THEN "Ok" ELSE "Err")
    /\ UNCHANGED <<calls, log, nUpdates, storeFails>>

GroupAnswer(h) ==
    /\ At(h, "group", "answer")
    /\ \E ok \in BOOLEAN :
         /\ Send(h, TextMessage(<<Escape(Collect(hnd[h].resp.choices))>>), ok)
         /\ Return(h, IF ok THEN "Ok" ELSE "Err")
    /\ UNCHANGED <<storage, calls, log, nUpdates, storeFails>>

----------------------------------------------------------------------------
(* image *)

ValidUrls == {"https://img/1.png"}

\* Url::parse(&photo_url)
UrlParse(photo_url) ==
    IF photo_url \in ValidUrls THEN Some("url:" \o photo_url) ELSE None

\* InputMedia::Photo(InputMediaPhoto::new(InputFile::url(url)))
InputMediaPhoto(url) == "photo:" \o url

\* outputs.iter().filter_map(...)
RECURSIVE FilterMapMedia(_)
FilterMapMedia(outputs) ==
    IF outputs = <<>> THEN <<>>
    ELSE LET url == UrlParse(Head(outputs))
         IN (IF IsSome(url) THEN <<InputMediaPhoto(Unwrap(url))>> ELSE <<>>)
                \o FilterMapMedia(Tail(outputs))

\* output.unwrap_or(vec![])
UnwrapOrEmpty(output) == IF IsSome(output) THEN Unwrap(output) ELSE <<>>

\* What client.image(text).await yields, as image() reads it: Err, or a
\* response with output: Option<Option<Vec<String>>> and error.
ImageErr == [ok |-> FALSE, output |-> None, error |-> None]

ImageOk(output, error) == [ok |-> TRUE, output |-> output, error |-> error]

ImageResults ==
    {ImageErr,
     ImageOk(None, Some("prediction failed")),
     ImageOk(None, None),
     ImageOk(Some(None), None),
     ImageOk(Some(Some(<<>>)), None),
     ImageOk(Some(Some(<<"https://img/1.png">>)), None),
     ImageOk(Some(Some(<<"not a url", "https://img/1.png">>)), None)}

ImageAction(h) ==
    /\ At(h, "image", "start")
    /\ \E ok \in BOOLEAN :
         /\ Send(h, ChatAction("UploadPhoto"), ok)
         /\ IF ok
            THEN hnd' = [hnd EXCEPT ![h] = Goto(h, "call")] /\ UNCHANGED ret
            ELSE Return(h, "Err")
    /\ UNCHANGED <<storage, calls, log, nUpdates, storeFails>>

\* let replicate_response = client.image(text.clone()).await?;
ImageCall(h) ==
    /\ At(h, "image", "call")
    /\ Invoke(h, Call("image", <<>>, [prompt |-> hnd[h].text]))
    /\ \E r \in ImageResults :
         /\ hnd' = [hnd EXCEPT ![h] =
                      [@ EXCEPT !.resp = r,
                                !.pc = IF r.ok THEN "match" ELSE "done"]]
         /\ ret' = [ret EXCEPT ![h] = IF r.ok THEN @ ELSE "Err"]
    /\ UNCHANGED <<storage, out, log, nUpdates, storeFails>>

\* match replicate_response.output { Some(output) => ... }
ImageMedia(h) ==
    /\ At(h, "image", "match")
    /\ IsSome(hnd[h].resp.output)
    /\ LET outputs == UnwrapOrEmpty(Unwrap(hnd[h].resp.output))
       IN \E ok \in BOOLEAN :
            /\ Send(h, MediaGroup(FilterMapMedia(outputs)), ok)
            /\ Return(h, IF ok THEN "Ok" ELSE "Err")
    /\ UNCHANGED <<storage, calls, log, nUpdates, storeFails>>

\* match replicate_response.output { None => ... }
ImageError(h) ==
    /\ At(h, "image", "match")
    /\ ~IsSome(hnd[h].resp.output)
    /\ ErrorBranch(h, IF IsSome(hnd[h].resp.error)
                      THEN Unwrap(hnd[h].resp.error) ELSE "None")
    /\ UNCHANGED <<storage, calls, nUpdates, storeFails>>

----------------------------------------------------------------------------
(* chat *)

UsageThreshold == 6000

BotUsername == Some("chatlyze_bot")

ChatPushUserOnly(history, choices, botname) == history

\* for choice in results.choices { history.bot_history.push(...) }
ChatPushAssistant(history, choices, botname) ==
    [history EXCEPT !.bot_history =
        @ \o [i \in 1..Len(choices) |->
                BotMessage("Assistant", choices[i], botname)]]

ChatPushUserFront(history, text, username) ==
    [history EXCEPT !.bot_history = <<BotMessage("User", text, username)>> \o @]

\* history.bot_history.push(BotMessage { role: Role::User, ... })
ChatPushUser(history, text, username) ==
    [history EXCEPT !.bot_history = Append(@, BotMessage("User", text, username))]

UsageLine(usage) ==
    "\n\n'usage " \o ToString(usage.total_tokens) \o " tokens = "
        \o ToString(usage.prompt_tokens) \o " prompt + "
        \o ToString(usage.completion_tokens) \o " completion'"

AdvisoryLine == "\n'Reaching 8k limit, consider running /reset soon'"

AdvisoryAtThreshold(usage) == usage.total_tokens >= UsageThreshold

\* if usage.total_tokens > 6000
AdvisoryDue(usage) == usage.total_tokens > UsageThreshold

\* reply_txt as chat() builds it, one element per push_str
ChatReplyText(results) ==
    <<Escape(Collect(results.choices))>>
        \o (IF IsSome(results.usage)
            THEN <<UsageLine(Unwrap(results.usage))>>
                    \o (IF AdvisoryDue(Unwrap(results.usage))
                        THEN <<AdvisoryLine>> ELSE <<>>)
            ELSE <<>>)

\* From the entry of chat() to the first .await
ChatTyping(h) ==
    /\ At(h, "chat", "start")
    /\ LET history == ChatPushUser(hnd[h].history, hnd[h].text,
                                   hnd[h].message.from)
       IN \E ok \in BOOLEAN :
            /\ Send(h, ChatAction("Typing"), ok)
            /\ hnd' = [hnd EXCEPT ![h] =
                         [@ EXCEPT !.history = history,
                                   !.pc = IF ok THEN "reply" ELSE "done"]]
            /\ ret' = [ret EXCEPT ![h] = IF ok THEN @ ELSE "Err"]
    /\ UNCHANGED <<storage, calls, log, nUpdates, storeFails>>

ChatReply(h) ==
    /\ At(h, "chat", "reply")
    /\ LET messages == IntoAll(hnd[h].history.bot_history)
       IN Invoke(h, Call("reply", messages, Reply(messages, None, None)))
    /\ \E r \in TextResults :
         hnd' = [hnd EXCEPT ![h] =
                   [@ EXCEPT !.resp = r,
                             !.pc = IF r.ok THEN "get_me" ELSE "error"]]
    /\ UNCHANGED <<storage, out, log, ret, nUpdates, storeFails>>

ChatErrorCommits(h) ==
    /\ At(h, "chat", "error")
    /\ ErrorBranch(h, hnd[h].resp.error)
    /\ storage' = [storage EXCEPT ![hnd[h].chat] = Some(Online(hnd[h].history))]
    /\ UNCHANGED <<calls, nUpdates, storeFails>>

ChatError(h) ==
    /\ At(h, "chat", "error")
    /\ ErrorBranch(h, hnd[h].resp.error)
    /\ UNCHANGED <<storage, calls, nUpdates, storeFails>>

\* let botname = &bot.get_me().await?.username;
ChatGetMe(h) ==
    /\ At(h, "chat", "get_me")
    /\ \E ok \in BOOLEAN :
         /\ Send(h, GetMe, ok)
         /\ hnd' = [hnd EXCEPT ![h] =
                      [@ EXCEPT !.botname = IF ok THEN BotUsername ELSE None,
                                !.pc = IF ok THEN "commit" ELSE "done"]]
         /\ ret' = [ret EXCEPT ![h] = IF ok THEN @ ELSE "Err"]
    /\ UNCHANGED <<storage, calls, log, nUpdates, storeFails>>

ChatCommitDefers(h) ==
    /\ At(h, "chat", "commit")
    /\ LET history == ChatPushAssistant(hnd[h].history, hnd[h].resp.choices,
                                        hnd[h].botname)
       IN hnd' = [hnd EXCEPT ![h] =
                    [@ EXCEPT !.history = history, !.pc = "send"]]
    /\ UNCHANGED <<storage, out, calls, log, ret, nUpdates, storeFails>>

\* The loop over results.choices, then
\* dialogue.update(State::Online(history)).await.unwrap()
ChatCommit(h) ==
    /\ At(h, "chat", "commit")
    /\ LET history == ChatPushAssistant(hnd[h].history, hnd[h].resp.choices,
                                        hnd[h].botname)
       IN \E ok \in UpdateOutcomes :
            IF ok
            THEN /\ storage' = [storage EXCEPT ![hnd[h].chat] = Some(Online(history))]
                 /\ hnd' = [hnd EXCEPT ![h] =
                              [@ EXCEPT !.history = history,
                                        !.updated = Some(ok), !.pc = "send"]]
                 /\ UNCHANGED ret
            ELSE /\ hnd' = [hnd EXCEPT ![h] =
                              [@ EXCEPT !.history = history,
                                        !.updated = Some(ok), !.pc = "done"]]
                 /\ ret' = [ret EXCEPT ![h] = "Panic"]
                 /\ UNCHANGED storage
    /\ UNCHANGED <<out, calls, log, nUpdates, storeFails>>

ChatSend(h) ==
    /\ At(h, "chat", "send")
    /\ \E ok \in BOOLEAN :
         /\ Send(h, TextMessage(ChatReplyText(hnd[h].resp)), ok)
         /\ Return(h, IF ok THEN "Ok" ELSE "Err")
    /\ UNCHANGED <<storage, calls, log, nUpdates, storeFails>>

----------------------------------------------------------------------------

Next ==
    \/ \E h \in Invocations : \E chat \in Chats :
         \E m \in Messages(nUpdates + 1) : Dispatch(h, chat, m)
    \/ \E h \in Invocations : DoNothing(h)
    \/ \E h \in Invocations : Record(h)
    \/ \E h \in Invocations : ResetTyping(h)
    \/ \E h \in Invocations : ResetUpdate(h)
    \/ \E h \in Invocations : ResetConfirm(h)
    \/ \E h \in Invocations : GroupTyping(h)
    \/ \E h \in Invocations : GroupAsk(h)
    \/ \E h \in Invocations : GroupError(h)
    \/ \E h \in Invocations : GroupAnswer(h)
    \/ \E h \in Invocations : ImageAction(h)
    \/ \E h \in Invocations : ImageCall(h)
    \/ \E h \in Invocations : ImageMedia(h)
    \/ \E h \in Invocations : ImageError(h)
    \/ \E h \in Invocations : ChatTyping(h)
    \/ \E h \in Invocations : ChatReply(h)
    \/ \E h \in Invocations : ChatError(h)
    \/ \E h \in Invocations : ChatGetMe(h)
    \/ \E h \in Invocations : ChatCommit(h)
    \/ \E h \in Invocations : ChatSend(h)

Spec == Init /\ [][Next]_vars

\* The same handlers over a Storage whose update_dialogue can answer Err
InitFallible ==
    /\ storage \in [Chats -> StoredAtStart]
    /\ hnd = [h \in Invocations |-> Idle]
    /\ out = [h \in Invocations |-> <<>>]
    /\ calls = [h \in Invocations |-> <<>>]
    /\ log = [h \in Invocations |-> <<>>]
    /\ ret = [h \in Invocations |-> "none"]
    /\ nUpdates = 0
    /\ storeFails = TRUE

SpecFallible == InitFallible /\ [][Next]_vars

----------------------------------------------------------------------------
(* Properties *)

Done(h, endpoint) == At(h, endpoint, "done")

\* The session the handler was given by dialogue::enter
Given(h) == hnd[h].state.history

Stored(history) == Some(Online(history))

Sent(h, kind) == SelectSeq(out[h], LAMBDA r : r.kind = kind)

AllSendsOk(h) == \A i \in 1..Len(out[h]) : out[h][i].ok

IsErrorMessage(payload) ==
    /\ Len(payload) = 3
    /\ payload[1] = "there was an error processing your request, you can use this ID to track the issue '"
    /\ payload[2] \in ErrorIds
    /\ payload[3] = "'"

\* C1: state gating. Whatever update reaches a chat whose session is
\* Offline, the update goes to do_nothing: nothing is sent, no backend is
\* called, nothing is logged and the stored session stays as it was.
C1_StateGating ==
    \A h \in Invocations :
        (hnd[h].pc /= "idle" /\ hnd[h].state = Offline) =>
            /\ hnd[h].endpoint = "do_nothing"
            /\ out[h] = <<>>
            /\ calls[h] = <<>>
            /\ log[h] = <<>>
            /\ StorageOf(h) = hnd[h].before
            /\ StorageOf(h) = Some(Offline)
            /\ hnd[h].pc = "done" => ret[h] = "Ok"

C1_Witness ==
    \E h \in Invocations :
        /\ Done(h, "do_nothing")
        /\ hnd[h].state = Offline
        /\ IsSome(ParseCommand(hnd[h].message))
        /\ Unwrap(ParseCommand(hnd[h].message)).name = "chat"
        /\ nUpdates >= 2

\* C2: passive accumulation. A message that is no command, received while
\* the session is Online, goes to record; when record has returned the
\* stored group_history is the given one with that message appended at the
\* end, the stored bot_history is the given one, nothing was sent and no
\* backend was called.
C2_PassiveAccumulation ==
    \A h \in Invocations :
        /\ (hnd[h].pc /= "idle" /\ hnd[h].state.tag = "Online"
                /\ ~IsSome(ParseCommand(hnd[h].message)))
              => hnd[h].endpoint = "record"
        /\ Done(h, "record") =>
              /\ StorageOf(h) = Stored(
                    [group_history |->
                        Append(Given(h).group_history, hnd[h].message),
                     bot_history |-> Given(h).bot_history])
              /\ Len(Unwrap(StorageOf(h)).history.group_history)
                    = Len(Given(h).group_history) + 1
              /\ out[h] = <<>>
              /\ calls[h] = <<>>
              /\ ret[h] = "Ok"

C2_Witness ==
    \E h \in Invocations :
        /\ Done(h, "record")
        /\ Len(Given(h).group_history) >= 1
        /\ Len(Given(h).bot_history) >= 2
        /\ Given(h).group_history[1] /= hnd[h].message

\* C3: reset isolation. Once reset has stored the session (and when it has
\* returned Ok), the stored bot_history is empty and the stored
\* group_history is the one the session held before the command.
C3_ResetIsolation ==
    \A h \in Invocations :
        (hnd[h].endpoint = "reset"
            /\ (hnd[h].pc = "confirm" \/ (hnd[h].pc = "done" /\ ret[h] = "Ok")))
          => /\ IsSome(StorageOf(h))
             /\ Unwrap(StorageOf(h)).tag = "Online"
             /\ Unwrap(StorageOf(h)).history.bot_history = <<>>
             /\ Unwrap(StorageOf(h)).history.group_history
                    = Given(h).group_history
             /\ hnd[h].before = None => Given(h).group_history = <<>>
             /\ IsSome(hnd[h].before) =>
                    Unwrap(hnd[h].before).history.group_history
                        = Unwrap(StorageOf(h)).history.group_history

C3_Witness ==
    \E h \in Invocations :
        /\ Done(h, "reset")
        /\ ret[h] = "Ok"
        /\ Len(Given(h).group_history) >= 1
        /\ Len(Given(h).bot_history) >= 2

\* C4: monotonic chat context. A chat handler starts from the stored
\* session; when a Chat whose response carried exactly one choice has
\* returned Ok, the stored bot_history is the one before the command
\* followed by one User turn (the command text) and one Assistant turn (the
\* returned content), so it is 2 longer; group_history is as before.
C4_MonotonicChatContext ==
    \A h \in Invocations :
        /\ (hnd[h].endpoint = "chat"
                /\ hnd[h].pc \in {"start", "reply", "error", "get_me", "commit"})
              => /\ StorageOf(h) = hnd[h].before
                 /\ GetOrDefault(StorageOf(h)).history = Given(h)
        /\ (Done(h, "chat") /\ ret[h] = "Ok" /\ hnd[h].resp.ok
                /\ Len(hnd[h].resp.choices) = 1)
              => /\ StorageOf(h) = Stored(
                       [group_history |-> Given(h).group_history,
                        bot_history |->
                            Given(h).bot_history \o
                              <<BotMessage("User", hnd[h].text,
                                           hnd[h].message.from),
                                BotMessage("Assistant", hnd[h].resp.choices[1],
                                           BotUsername)>>])
                 /\ Len(Unwrap(StorageOf(h)).history.bot_history)
                        = Len(Given(h).bot_history) + 2

\* The second of two successful one-choice Chat commands in a row
C4_Witness ==
    \E h \in Invocations :
        /\ Done(h, "chat")
        /\ ret[h] = "Ok"
        /\ hnd[h].resp.ok
        /\ Len(hnd[h].resp.choices) = 1
        /\ Len(Given(h).bot_history) = 2
        /\ Len(Unwrap(StorageOf(h)).history.bot_history) = 4

\* C5: failure leaves history untouched. When the backend call of a Chat
\* has failed, the stored session is, from then on and after the handler
\* has ended, the one stored before the command.
C5_FailureLeavesHistory ==
    \A h \in Invocations :
        (hnd[h].endpoint = "chat" /\ hnd[h].pc \in {"error", "done"}
            /\ Len(calls[h]) = 1 /\ ~hnd[h].resp.ok)
          => StorageOf(h) = hnd[h].before

C5_Witness ==
    \E h \in Invocations :
        /\ Done(h, "chat")
        /\ Len(calls[h]) = 1
        /\ ~hnd[h].resp.ok
        /\ ret[h] = "Ok"
        /\ IsSome(hnd[h].before)
        /\ Len(Given(h).bot_history) >= 2
        /\ Len(hnd[h].history.bot_history) = Len(Given(h).bot_history) + 1

\* The backend call of the handler that has ended failed: a hard error, or
\* (image) a response without output.
BackendFailed(h) ==
    /\ hnd[h].pc = "done"
    /\ Len(calls[h]) = 1
    /\ \/ hnd[h].endpoint \in {"chat", "group"} /\ ~hnd[h].resp.ok
       \/ hnd[h].endpoint = "image"
            /\ (~hnd[h].resp.ok \/ ~IsSome(hnd[h].resp.output))

OneErrorMessageOnly(h) ==
    /\ Len(Sent(h, "message")) = 1
    /\ IsErrorMessage(Sent(h, "message")[1].payload)
    /\ Sent(h, "media_group") = <<>>

\* C6: every backend failure is recovered at the handler boundary. For
\* chat, group and image: when the backend call failed and every transport
\* send succeeded, the handler has sent exactly one text message, which
\* carries a correlation identifier and nothing of the cause, no other
\* reply or media, and has returned Ok.
C6_BackendFailureRecovered ==
    \A h \in Invocations :
        (BackendFailed(h) /\ AllSendsOk(h)) =>
            /\ OneErrorMessageOnly(h)
            /\ ret[h] = "Ok"

\* C7: image with empty output. When the image backend answers with an
\* empty output list, the handler sends exactly one error message with a
\* correlation identifier and never attempts a media group.
C7_ImageEmptyOutput ==
    \A h \in Invocations :
        (Done(h, "image") /\ hnd[h].resp.ok
            /\ hnd[h].resp.output = Some(Some(<<>>)))
          => OneErrorMessageOnly(h)

\* C8: text backend request shape. With no system-prompt override, the
\* messages of the request that reply hands to the backend are the default
\* system turn followed by the supplied turns in their order.
C8_ReplyRequestShape ==
    \A h \in Invocations :
        \A i \in 1..Len(calls[h]) :
            calls[h][i].fn = "reply" =>
                /\ calls[h][i].request.messages =
                      <<[role |-> "system", content |-> DefaultSystemPrompt,
                         name |-> None]>> \o calls[h][i].supplied
                /\ Len(calls[h][i].request.messages)
                      = Len(calls[h][i].supplied) + 1
                /\ calls[h][i].request.messages[1].role = "system"

Range(seq) == {seq[i] : i \in 1..Len(seq)}

\* C9: advisory threshold. When a Chat whose response reports usage has
\* returned Ok, exactly one text message was sent; it holds the usage line,
\* and holds the advisory line exactly when total_tokens is above 6000
\* (there at 6001, not there at 5999 and at 6000).
C9_AdvisoryThreshold ==
    \A h \in Invocations :
        (Done(h, "chat") /\ ret[h] = "Ok" /\ hnd[h].resp.ok
            /\ IsSome(hnd[h].resp.usage))
          => LET usage == Unwrap(hnd[h].resp.usage)
                 sent == Sent(h, "message")
                 reply_txt == sent[1].payload
             IN /\ Len(sent) = 1
                /\ Len(reply_txt) >= 2
                /\ reply_txt[2] =
                      "\n\n'usage " \o ToString(usage.total_tokens)
                        \o " tokens = " \o ToString(usage.prompt_tokens)
                        \o " prompt + " \o ToString(usage.completion_tokens)
                        \o " completion'"
                /\ usage.total_tokens = 15 =>
                      reply_txt = <<"hi\\!",
                          "\n\n'usage 15 tokens = 10 prompt + 5 completion'">>
                /\ (AdvisoryLine \in Range(reply_txt))
                      <=> usage.total_tokens > 6000
                /\ usage.total_tokens = 6001 =>
                      reply_txt[Len(reply_txt)] = AdvisoryLine
                /\ usage.total_tokens \in {5999, 6000} => Len(reply_txt) = 2

C9_Witness ==
    \E h \in Invocations :
        /\ Done(h, "chat")
        /\ ret[h] = "Ok"
        /\ hnd[h].resp.ok
        /\ IsSome(hnd[h].resp.usage)
        /\ Unwrap(hnd[h].resp.usage).total_tokens = 6000

HasBoth(message) == IsSome(message.from) /\ IsSome(message.text)

LacksBoth(message) == ~IsSome(message.from) /\ ~IsSome(message.text)

\* "name [timestamp]: text", with nothing in the place of a part the
\* message lacks
LineOf(message) ==
    (IF IsSome(message.from) THEN Unwrap(message.from) ELSE "")
        \o " [" \o NaiveLocal(message.date) \o "]: "
        \o (IF IsSome(message.text) THEN BodyText(Unwrap(message.text)) ELSE "")
        \o "\n"

RECURSIVE TranscriptOf(_)
TranscriptOf(messages) ==
    IF messages = <<>> THEN ""
    ELSE LineOf(Head(messages)) \o TranscriptOf(Tail(messages))

PromptOf(messages, question) ==
    "Use the following conversation as context: \n\n ###"
        \o TranscriptOf(messages) \o "###  \n\n " \o question \o " "

GroupAsked(h) ==
    /\ hnd[h].endpoint = "group"
    /\ Len(calls[h]) = 1
    /\ calls[h][1].fn = "group_question"

GroupPrompt(h) == calls[h][1].request.messages[2].content

\* C10 as claimed: the prompt of the Group handler holds one line per
\* message of group_history, in order, then the question, and the messages
\* left out are exactly those that lack both the sender name and the text.
C10_SkipsOnlyLackingBoth ==
    \A h \in Invocations :
        GroupAsked(h) =>
            GroupPrompt(h) =
                PromptOf(SelectSeq(Given(h).group_history,
                                   LAMBDA m : ~LacksBoth(m)),
                         hnd[h].text)

\* C10 as amended: the prompt of the Group handler holds one line per
\* message of group_history, in order, then the question, and the messages
\* left out are exactly those that lack the sender name or lack the text.
C10_GroupPrompt ==
    \A h \in Invocations :
        GroupAsked(h) =>
            /\ GroupPrompt(h) =
                  PromptOf(SelectSeq(Given(h).group_history, HasBoth),
                           hnd[h].text)
            /\ Len(calls[h][1].request.messages) = 2

C10_Witness ==
    \E h \in Invocations :
        /\ GroupAsked(h)
        /\ Len(Given(h).group_history) = 2
        /\ HasBoth(Given(h).group_history[1])
        /\ ~HasBoth(Given(h).group_history[2])
        /\ ~LacksBoth(Given(h).group_history[2])
        /\ GroupPrompt(h) =
              "Use the following conversation as context: \n\n ###alice [1970-01-01 00:00:01]: left at 5\n###  \n\n hello "

----------------------------------------------------------------------------
(* Properties of the handlers' effect on the stored session *)

IsOnline(stored) == IsSome(stored) /\ Unwrap(stored).tag = "Online"

GroupLogOf(stored) ==
    IF IsOnline(stored) THEN Unwrap(stored).history.group_history ELSE <<>>

DialogueOf(stored) ==
    IF IsOnline(stored) THEN Unwrap(stored).history.bot_history ELSE <<>>

IsPrefix(a, b) == Len(a) <= Len(b) /\ \A i \in 1..Len(a) : a[i] = b[i]

\* C11: the Group handler is read-only. From its start to its return,
\* whether the backend call succeeds or fails, the stored session (both
\* logs) is the one stored before the command.
C11_GroupReadOnly ==
    \A h \in Invocations :
        hnd[h].endpoint = "group" =>
            /\ StorageOf(h) = hnd[h].before
            /\ GroupLogOf(StorageOf(h)) = Given(h).group_history
            /\ DialogueOf(StorageOf(h)) = Given(h).bot_history
            /\ hnd[h].updated = None

C11_Witness ==
    \E h \in Invocations :
        /\ Done(h, "group")
        /\ ret[h] = "Ok"
        /\ hnd[h].resp.ok
        /\ Len(GroupLogOf(StorageOf(h))) >= 1
        /\ Len(DialogueOf(StorageOf(h))) >= 2

FinalSendFailed(h) ==
    /\ hnd[h].updated = Some(TRUE)
    /\ out[h] /= <<>>
    /\ out[h][Len(out[h])].kind = "message"
    /\ ~out[h][Len(out[h])].ok

\* C14: commit before send. In the Chat success path and in Reset the
\* session is stored before the final message is sent; when that send
\* fails the handler returns Err and the stored session keeps the mutation
\* (the User and Assistant turns for Chat, the empty bot_history for Reset).
C14_CommitBeforeSend ==
    \A h \in Invocations :
        /\ At(h, "chat", "send") =>
              /\ StorageOf(h) = Stored(hnd[h].history)
              /\ Sent(h, "message") = <<>>
        /\ At(h, "reset", "confirm") =>
              /\ StorageOf(h) = Stored(hnd[h].history)
              /\ Sent(h, "message") = <<>>
        /\ (Done(h, "chat") /\ FinalSendFailed(h)) =>
              /\ ret[h] = "Err"
              /\ GroupLogOf(StorageOf(h)) = Given(h).group_history
              /\ DialogueOf(StorageOf(h)) =
                    Append(Given(h).bot_history,
                           BotMessage("User", hnd[h].text, hnd[h].message.from))
                      \o [i \in 1..Len(hnd[h].resp.choices) |->
                            BotMessage("Assistant", hnd[h].resp.choices[i],
                                       BotUsername)]
        /\ (Done(h, "reset") /\ FinalSendFailed(h)) =>
              /\ ret[h] = "Err"
              /\ GroupLogOf(StorageOf(h)) = Given(h).group_history
              /\ DialogueOf(StorageOf(h)) = <<>>
              /\ IsOnline(StorageOf(h))

C14_Witness ==
    \E h \in Invocations :
        /\ Done(h, "chat")
        /\ FinalSendFailed(h)
        /\ Len(hnd[h].resp.choices) = 1
        /\ Len(Given(h).bot_history) >= 2

ResetStoreFailed(h) ==
    hnd[h].endpoint = "reset" /\ hnd[h].updated = Some(FALSE)

RolePairs ==
    {<<"System", "system">>, <<"User", "user">>, <<"Assistant", "assistant">>}

ChatAsked(h) ==
    /\ hnd[h].endpoint = "chat"
    /\ Len(calls[h]) = 1
    /\ calls[h][1].fn = "reply"

\* C16: Chat resends full history. The turns a Chat command hands to the
\* text backend are the whole stored bot_history, oldest first, each turn
\* with its content and name, followed by one new User turn with the
\* command text; nothing else (no group_history entry) is among them.
C16_ChatResendsHistory ==
    \A h \in Invocations :
        ChatAsked(h) =>
            LET turns == calls[h][1].supplied
                request == calls[h][1].request.messages
                dialogue == DialogueOf(hnd[h].before)
                n == Len(dialogue)
            IN /\ Len(turns) = n + 1
               /\ \A i \in 1..n :
                     /\ <<dialogue[i].role, turns[i].role>> \in RolePairs
                     /\ turns[i].content = dialogue[i].content
                     /\ turns[i].name = dialogue[i].name
               /\ turns[n + 1] = [role |-> "user", content |-> hnd[h].text,
                                  name |-> hnd[h].message.from]
               /\ Len(request) >= n + 1
               /\ SubSeq(request, Len(request) - n, Len(request)) = turns

C16_Witness ==
    \E h \in Invocations :
        /\ ChatAsked(h)
        /\ Len(DialogueOf(hnd[h].before)) >= 2
        /\ Len(GroupLogOf(hnd[h].before)) >= 1

\* C17: the dialogue grows monotonically until reset. Every step that
\* changes the stored bot_history of a chat is either the commit of a Chat
\* handler of that chat, which extends it (the old one is a prefix of the
\* new one), or the store of a Reset handler of that chat, which empties it.
C17_DialogueMonotonic ==
    [][\A chat \in Chats :
          DialogueOf(storage'[chat]) /= DialogueOf(storage[chat]) =>
              \E h \in Invocations :
                  /\ hnd[h].chat = chat
                  /\ \/ /\ At(h, "chat", "commit")
                        /\ hnd'[h].pc = "send"
                        /\ IsPrefix(DialogueOf(storage[chat]),
                                    DialogueOf(storage'[chat]))
                     \/ /\ At(h, "reset", "update")
                        /\ hnd'[h].pc = "confirm"
                        /\ DialogueOf(storage'[chat]) = <<>>]_vars

\* A Chat handler has extended a stored dialogue that held turns
C17_Witness ==
    \E h \in Invocations :
        /\ At(h, "chat", "send")
        /\ Len(DialogueOf(hnd[h].before)) >= 2
        /\ Len(DialogueOf(StorageOf(h))) > Len(DialogueOf(hnd[h].before))

\* C18: Online is the initial and stable state. A chat without stored
\* session gets, on its first update, an Online session with both logs
\* empty; no step stores Offline, and a session that is Online stays Online.
C18_OnlineInitialStable ==
    /\ [](\A h \in Invocations :
            (hnd[h].pc /= "idle" /\ hnd[h].before = None) =>
                /\ hnd[h].state =
                      [tag |-> "Online",
                       history |-> [group_history |-> <<>>,
                                    bot_history |-> <<>>]]
                /\ hnd[h].endpoint /= "do_nothing")
    /\ [][\A chat \in Chats :
             /\ storage'[chat] /= storage[chat] => IsOnline(storage'[chat])
             /\ IsOnline(storage[chat]) => IsOnline(storage'[chat])]_vars

\* The first update of a chat was a plain message and has been recorded
C18_Witness ==
    \E h \in Invocations :
        /\ Done(h, "record")
        /\ hnd[h].before = None
        /\ nUpdates = 1
        /\ IsOnline(StorageOf(h))
        /\ Len(GroupLogOf(StorageOf(h))) = 1

Unparsed(message) ==
    /\ IsSome(message.text)
    /\ Unwrap(message.text).cmd /= ""
    /\ Unwrap(message.text).cmd \notin {"chat", "image", "group", "reset"}

\* C19: malformed or unrecognized commands fall through. While Online, a
\* message that starts like a command and fails command parsing goes to
\* record, never to chat, image, group or reset: it is appended to
\* group_history, nothing is sent, no backend is called, and the handler
\* returns Ok.
C19_UnparsedFallsThrough ==
    \A h \in Invocations :
        (hnd[h].pc /= "idle" /\ hnd[h].state.tag = "Online"
            /\ Unparsed(hnd[h].message))
          => /\ hnd[h].endpoint = "record"
             /\ out[h] = <<>>
             /\ calls[h] = <<>>
             /\ hnd[h].pc = "done" =>
                   /\ ret[h] = "Ok"
                   /\ GroupLogOf(StorageOf(h)) =
                         Append(Given(h).group_history, hnd[h].message)
                   /\ DialogueOf(StorageOf(h)) = Given(h).bot_history

C19_Witness ==
    \E h \in Invocations :
        /\ Done(h, "record")
        /\ Unparsed(hnd[h].message)
        /\ Len(Given(h).group_history) >= 1

\* C20: commands are not transcript. While Online a message that parses as
\* a command goes to the endpoint of that command and to no other, and its
\* handler leaves the stored group_history as it was, however it ends; no
\* entry of a stored group_history is a message that parses as a command.
C20_CommandsNotTranscript ==
    /\ \A chat \in Chats :
          \A i \in 1..Len(GroupLogOf(storage[chat])) :
              ParseCommand(GroupLogOf(storage[chat])[i]) = None
    /\ \A h \in Invocations :
          (hnd[h].pc /= "idle" /\ hnd[h].state.tag = "Online"
              /\ IsSome(ParseCommand(hnd[h].message)))
            => /\ hnd[h].endpoint = Unwrap(hnd[h].message.text).cmd
               /\ hnd[h].endpoint \in {"chat", "image", "group", "reset"}
               /\ GroupLogOf(StorageOf(h)) = Given(h).group_history

C20_Witness ==
    \E h \in Invocations :
        /\ Done(h, "image")
        /\ ret[h] = "Err"
        /\ Len(GroupLogOf(StorageOf(h))) >= 1

====
